---- MODULE Spec2Model ----
(***************************************************************************)
(* Model of fdfdpy's density optimizer (fdfdpy/optimize/optimization.py)   *)
(* and of its nonlinear solvers (fdfdpy/nonlinear_solvers.py).             *)
(*                                                                         *)
(* Numbers.  A density or permittivity value is a pair <<c, f>> that       *)
(* stands for the real number c/Scale + f*Ulp.  c counts steps of 1/Scale; *)
(* f counts steps of Ulp, a positive quantity below the resolution of the  *)
(* 1e-10 relative tolerance of _set_design_region                          *)
(* (Ulp * sqrt(NCells) * Scale <= 1e-10).  Pairs are ordered               *)
(* lexicographically, which is the order of the reals they stand for.      *)
(***************************************************************************)
EXTENDS Integers, Sequences, FiniteSets

NCells == 3
Scale == 1
FilterR == 1
MaxNsteps == 2

eps_m == 5
EtaNum == 1
EtaDen == 2

MaxC == Scale + 1
Cells == 1..NCells
None == << >>
Zero == <<0, 0>>
One == <<Scale, 0>>
Vals == (0..MaxC) \X (0..1)

VARIABLES simulation, design_region, objfn_list, pc, method, Nsteps, err,
          last, readFresh, changed, run_log, adam, nl, nlsim

optVars == <<simulation, design_region, last, readFresh, changed>>
runVars == <<pc, method, Nsteps, objfn_list, err, run_log>>
solverVars == <<adam, nl, nlsim>>
vars == <<optVars, runVars, solverVars>>

Lt(a, b) == a[1] < b[1] \/ (a[1] = b[1] /\ a[2] < b[2])
InBox(v) == ~Lt(v, Zero) /\ ~Lt(One, v)

RECURSIVE SumC(_, _), SumF(_, _)
SumC(arr, S) == IF S = {} THEN 0
                ELSE LET c == CHOOSE c \in S : TRUE IN arr[c][1] + SumC(arr, S \ {c})
SumF(arr, S) == IF S = {} THEN 0
                ELSE LET c == CHOOSE c \in S : TRUE IN arr[c][2] + SumF(arr, S \ {c})

(* filter.eps2rho: the inverse of the material map eps = 1 + rho*(eps_m-1). *)
eps2rho(eps) ==
  [c \in Cells |-> <<(eps[c][1] - Scale) \div (eps_m - 1), eps[c][2] \div (eps_m - 1)>>]

(* filter.get_W: the design cells within FilterR of cell c. *)
get_W(c) == {d \in Cells : design_region[d] = 1 /\ d - c <= FilterR /\ c - d <= FilterR}

(* filter.rho2rhot and filter.rhot2rhob at beta = 100: the average of rho    *)
(* over get_W(c) against the threshold eta, the smooth threshold taken as a  *)
(* step.                                                                     *)
rhot2rhob(r, c) ==
  LET n == Cardinality(get_W(c))
      lhs == EtaDen * SumC(r, get_W(c))
      rhs == EtaNum * n * Scale
  IN IF lhs > rhs \/ (lhs = rhs /\ SumF(r, get_W(c)) >= 0) THEN 1 ELSE 0

(* filter.rho2eps: filter, projection and material map inside the design    *)
(* region; the material map alone elsewhere.                                 *)
rho2eps(r) ==
  [c \in Cells |->
     IF design_region[c] = 1
     THEN <<Scale + rhot2rhob(r, c) * Scale * (eps_m - 1), 0>>
     ELSE <<Scale + (eps_m - 1) * r[c][1], (eps_m - 1) * r[c][2]>>]

(* Simulation.eps_r setter: replaces the permittivity and erases the stored  *)
(* fields.                                                                   *)
set_eps_r(sim, eps_new) == [sim EXCEPT !.eps_r = eps_new, !.fieldsEz = None]

(* Simulation.solve_fields: a field is labelled by the permittivity it was   *)
(* solved under.                                                             *)
solve_fields(sim) == [sim EXCEPT !.fieldsEz = sim.eps_r]

(* The objective J(Ez): the number of cells whose field was solved in matter. *)
J(Ez) == Cardinality({c \in Cells : Lt(One, Ez[c])})

DesIdx == SelectSeq([i \in Cells |-> i], LAMBDA i : design_region[i] = 1)
N_des == Len(DesIdx)
Pos(c) == Cardinality({d \in Cells : d <= c /\ design_region[d] = 1})

get_design_region(spatial_array) == [k \in 1..N_des |-> spatial_array[DesIdx[k]]]

(* np.linalg.norm(x - cur)/np.linalg.norm(x) > 1e-10 on pairs: a difference  *)
(* of a coarse step is above the tolerance; a difference of Ulp steps alone  *)
(* is above it only when x itself is of the order of Ulp; x = 0 gives inf    *)
(* (true) when cur # 0 and nan (false) when cur = 0.                         *)
norm_test(x, cur) ==
  LET K == DOMAIN x
      coarseDiff == \E k \in K : x[k][1] # cur[k][1]
      fineDiff == \E k \in K : x[k][2] # cur[k][2]
      xCoarseZero == \A k \in K : x[k][1] = 0
  IN coarseDiff \/ (xCoarseZero /\ fineDiff)

insert_design_region(r, x) ==
  [c \in Cells |-> IF design_region[c] = 1 THEN x[Pos(c)] ELSE r[c]]

set_design_region_never(sim, x) == sim

set_design_region(sim, x) ==
  IF norm_test(x, get_design_region(sim.rho))
  THEN LET rho_new == insert_design_region(sim.rho, x)
       IN set_eps_r([sim EXCEPT !.rho = rho_new], rho2eps(rho_new))
  ELSE sim

clamp_noupper(moved) ==
  [c \in Cells |-> IF Lt(moved[c], Zero) THEN Zero ELSE moved[c]]

clamp(moved) ==
  LET lo == [c \in Cells |-> IF Lt(moved[c], Zero) THEN Zero ELSE moved[c]]
  IN [c \in Cells |-> IF Lt(One, lo[c]) THEN One ELSE lo[c]]

update_rho_inplace(sim, grad, step_size) ==
  LET rho_new == clamp([c \in Cells |->
        <<sim.rho[c][1] + design_region[c] * step_size * grad[c], sim.rho[c][2]>>])
  IN [sim EXCEPT !.rho = rho_new, !.eps_r = rho2eps(rho_new)]

update_rho(sim, grad, step_size) ==
  LET rho_new == clamp([c \in Cells |->
        <<sim.rho[c][1] + design_region[c] * step_size * grad[c], sim.rho[c][2]>>])
  IN set_eps_r([sim EXCEPT !.rho = rho_new], rho2eps(rho_new))

(* The field access of compute_J and compute_dJ: solve when no field is      *)
(* stored, read the stored field otherwise.                                  *)
read_Ez(sim) == IF sim.fieldsEz = None THEN solve_fields(sim) ELSE sim

(* compute_J returns J of that field. *)
compute_J(sim) == J(read_Ez(sim).fieldsEz)

(* Whether the field a read returns was solved under the current permittivity. *)
Fresh(sim) == read_Ez(sim).fieldsEz = sim.eps_r

(* The design region is the first cell or the first two cells.             *)
Masks == {[c \in Cells |-> IF c <= k THEN 1 ELSE 0] : k \in {1, 2}}
EpsInit == {<<Scale + (eps_m - 1) * k, 0>> : k \in 0..MaxC}
(* Gradients: any value in a design cell; outside the design region the    *)
(* value is multiplied by design_region = 0, and is taken to be 1.         *)
Grads == {g \in [Cells -> {-1, 0, 1}] : \A c \in Cells : design_region[c] # 1 => g[c] = 1}
StepSizes == {1, 2}
NoOp == [op |-> "none", x |-> None, wrote |-> FALSE, cached |-> FALSE]

RunIdle ==
  /\ pc = "idle" /\ method = None /\ Nsteps = 0 /\ objfn_list = << >>
  /\ err = None /\ run_log = [solved |-> FALSE, recorded |-> 0, updates |-> 0, iters |-> 0]

SolversIdle == adam = None /\ nl = None /\ nlsim = None

(* The optimizer once run() has derived rho from the initial permittivity.  *)
Init ==
  /\ design_region \in Masks
  /\ \E eps \in [Cells -> EpsInit] :
       simulation = [rho |-> eps2rho(eps), eps_r |-> eps, fieldsEz |-> None]
  /\ last = NoOp
  /\ readFresh = TRUE
  /\ changed = FALSE
  /\ RunIdle
  /\ SolversIdle

CallUpdateRho ==
  /\ \E grad \in Grads, step_size \in StepSizes :
       simulation' = update_rho(simulation, grad, step_size)
  /\ last' = [NoOp EXCEPT !.op = "update"]
  /\ changed' = (changed \/ simulation'.eps_r # simulation.eps_r)
  /\ UNCHANGED <<design_region, readFresh, runVars, solverVars>>

CallSetDesignRegion ==
  /\ \E x \in [1..N_des -> Vals] :
       /\ simulation' = set_design_region(simulation, x)
       /\ last' = [NoOp EXCEPT !.op = "set", !.x = x,
                               !.wrote = norm_test(x, get_design_region(simulation.rho))]
  /\ changed' = (changed \/ simulation'.eps_r # simulation.eps_r)
  /\ UNCHANGED <<design_region, readFresh, runVars, solverVars>>

CallComputeJ ==
  /\ simulation' = read_Ez(simulation)
  /\ readFresh' = Fresh(simulation)
  /\ last' = [NoOp EXCEPT !.op = "J", !.cached = (simulation.fieldsEz # None)]
  /\ UNCHANGED <<design_region, changed, runVars, solverVars>>

(* compute_dJ: the same field access, then _grad_linear(Ez) is called one    *)
(* argument short and raises TypeError.                                      *)
CallComputeDJ ==
  /\ simulation' = read_Ez(simulation)
  /\ readFresh' = Fresh(simulation)
  /\ last' = [NoOp EXCEPT !.op = "dJ", !.cached = (simulation.fieldsEz # None)]
  /\ UNCHANGED <<design_region, changed, runVars, solverVars>>

Next ==
  \/ CallUpdateRho
  \/ CallSetDesignRegion
  \/ CallComputeJ
  \/ CallComputeDJ

Spec == Init /\ [][Next]_vars

(***************************************************************************)
(* Claims about the density operations, checked under Spec.                *)
(***************************************************************************)
XInBox == \A k \in DOMAIN last.x : InBox(last.x[k])

(* C1 as stated: after _update_rho, and after _set_design_region of a       *)
(* vector within the L-BFGS bounds, every cell of simulation.rho lies in    *)
(* [0,1].                                                                    *)
C1_AllCellsInBox ==
  (last.op = "update" \/ (last.op = "set" /\ XInBox))
    => \A c \in Cells : InBox(simulation.rho[c])

(* C1 amended: after _update_rho every cell of simulation.rho lies in       *)
(* [0,1]; after a _set_design_region that writes a vector with entries in   *)
(* [0,1], every design-region cell does.                                     *)
C1_Box ==
  /\ last.op = "update" => \A c \in Cells : InBox(simulation.rho[c])
  /\ (last.op = "set" /\ last.wrote /\ XInBox)
       => \A c \in Cells : design_region[c] = 1 => InBox(simulation.rho[c])

C1_Witness ==
  /\ last.op = "set" /\ last.wrote /\ XInBox
  /\ \E c \in Cells : ~InBox(simulation.rho[c])

(* C2: no optimizer update changes simulation.rho in a cell where           *)
(* design_region is not 1.                                                   *)
C2_Frame ==
  [][\A c \in Cells : design_region[c] # 1 => simulation'.rho[c] = simulation.rho[c]]_vars

(* C4: every field compute_J or compute_dJ reads was solved under the       *)
(* permittivity currently set, and a stored field is never one solved under *)
(* a superseded permittivity.                                                *)
C4_FieldsFresh ==
  /\ readFresh
  /\ simulation.fieldsEz # None => simulation.fieldsEz = simulation.eps_r

C4_Witness ==
  /\ changed /\ last.op \in {"J", "dJ"} /\ last.cached
  /\ simulation.fieldsEz = simulation.eps_r

(* C8 as stated: after _set_design_region(x) the design-region cells of     *)
(* simulation.rho equal x and the permittivity equals rho2eps of the        *)
(* density.                                                                  *)
C8_RoundTrip ==
  last.op = "set" =>
    /\ get_design_region(simulation.rho) = last.x
    /\ simulation.eps_r = rho2eps(simulation.rho)

(* C8 amended: when x differs from the stored design-region vector by more  *)
(* than 1e-10 in relative norm, the design-region cells then equal x and    *)
(* the permittivity equals rho2eps of the density; otherwise density,       *)
(* permittivity and stored fields are left as they were.                     *)
C8_RoundTripAboveTolerance ==
  /\ [](last.op = "set" =>
          IF last.wrote
          THEN /\ get_design_region(simulation.rho) = last.x
               /\ simulation.eps_r = rho2eps(simulation.rho)
               /\ simulation.fieldsEz = None
          ELSE ~norm_test(last.x, get_design_region(simulation.rho)))
  /\ [][(last'.op = "set" /\ ~last'.wrote) => simulation' = simulation]_vars

C8_Witness ==
  /\ last.op = "set" /\ ~last.wrote
  /\ get_design_region(simulation.rho) # last.x

(***************************************************************************)
(* Optimization.run, from a freshly constructed optimizer.                 *)
(***************************************************************************)
UpperCase == <<"A", "B", "D", "F", "G", "L", "M", "O", "S">>
LowerCase == <<"a", "b", "d", "f", "g", "l", "m", "o", "s">>

(* str.lower on one character and on a name, a name being its characters.   *)
lower_char(ch) ==
  IF \E i \in DOMAIN UpperCase : UpperCase[i] = ch
  THEN LowerCase[CHOOSE i \in DOMAIN UpperCase : UpperCase[i] = ch]
  ELSE ch
lower(name) == [i \in DOMAIN name |-> lower_char(name[i])]

allowed == << <<"L", "B", "F", "G", "S">>, <<"G", "D">>, <<"A", "D", "A", "M">> >>

Methods ==
  { <<"L", "B", "F", "G", "S">>, <<"l", "b", "f", "g", "s">>,
    <<"G", "D">>, <<"g", "D">>,
    <<"A", "D", "A", "M">>, <<"A", "d", "a", "m">>,
    <<"f", "o", "o">>, <<"S", "G", "D">>, << >> }

NewLog == [solved |-> FALSE, recorded |-> 0, updates |-> 0, iters |-> 0]
ValueError == [type |-> "ValueError", msg |-> <<"'method' must be in ", allowed>>]
AttributeError == [type |-> "AttributeError", msg |-> << >>]
TypeError == [type |-> "TypeError", msg |-> << >>]

(* The state after construction: no density yet, no field solved.          *)
InitRun ==
  /\ design_region \in Masks
  /\ \E eps \in [Cells -> EpsInit] :
       simulation = [rho |-> None, eps_r |-> eps, fieldsEz |-> None]
  /\ last = NoOp
  /\ readFresh = TRUE
  /\ changed = FALSE
  /\ RunIdle
  /\ SolversIdle

(* run, up to the dispatch on the method name: the density is derived from *)
(* the permittivity when there is none, then the name selects the rule or  *)
(* raises ValueError.                                                       *)
run_unknown_as_GD(m, N) ==
  /\ pc \in {"idle", "returned", "raised"}
  /\ Len(objfn_list) < MaxNsteps
  /\ method' = m /\ Nsteps' = N /\ run_log' = NewLog /\ err' = None
  /\ simulation' = IF simulation.rho = None
                   THEN [simulation EXCEPT !.rho = eps2rho(simulation.eps_r)]
                   ELSE simulation
  /\ pc' = IF lower(m) = <<"l", "b", "f", "g", "s">> THEN "LBFGS"
           ELSE IF lower(m) = <<"a", "d", "a", "m">> THEN "ADAM" ELSE "GD"
  /\ UNCHANGED <<design_region, objfn_list, last, readFresh, changed, solverVars>>

run(m, N) ==
  /\ pc \in {"idle", "returned", "raised"}
  /\ Len(objfn_list) < MaxNsteps
  /\ method' = m /\ Nsteps' = N /\ run_log' = NewLog
  /\ simulation' = IF simulation.rho = None
                   THEN [simulation EXCEPT !.rho = eps2rho(simulation.eps_r)]
                   ELSE simulation
  /\ IF lower(m) = <<"l", "b", "f", "g", "s">> THEN pc' = "LBFGS" /\ err' = None
     ELSE IF lower(m) = <<"g", "d">> THEN pc' = "GD" /\ err' = None
     ELSE IF lower(m) = <<"a", "d", "a", "m">> THEN pc' = "ADAM" /\ err' = None
     ELSE pc' = "raised" /\ err' = ValueError
  /\ UNCHANGED <<design_region, objfn_list, last, readFresh, changed, solverVars>>

(* One pass of the loop of _run_GD or _run_ADAM (rule is "GD" or "ADAM"):  *)
(* compute_J, the append to objfn_list, then _update_progressbar, which    *)
(* raises AttributeError because _make_progressbar returned None.          *)
run_iteration(rule) ==
  /\ pc = rule
  /\ run_log.iters < Nsteps
  /\ simulation' = read_Ez(simulation)
  /\ readFresh' = Fresh(simulation)
  /\ objfn_list' = Append(objfn_list, compute_J(simulation))
  /\ run_log' = [run_log EXCEPT !.solved = (simulation.fieldsEz = None),
                                !.recorded = @ + 1]
  /\ pc' = "raised" /\ err' = AttributeError
  /\ last' = [NoOp EXCEPT !.op = "J", !.cached = (simulation.fieldsEz # None)]
  /\ UNCHANGED <<design_region, method, Nsteps, changed, solverVars>>

(* The loop of _run_GD or _run_ADAM is over: the run returns.               *)
run_loop_end(rule) ==
  /\ pc = rule
  /\ run_log.iters >= Nsteps
  /\ pc' = "returned"
  /\ UNCHANGED <<optVars, method, Nsteps, objfn_list, err, run_log, solverVars>>

run_GD_iteration == run_iteration("GD")
run_GD_end == run_loop_end("GD")
run_ADAM_iteration == run_iteration("ADAM")
run_ADAM_end == run_loop_end("ADAM")

(* np.clip of the start vector to the bounds (0, 1) by fmin_l_bfgs_b.       *)
clip(x) == [k \in DOMAIN x |-> IF Lt(x[k], Zero) THEN Zero
                               ELSE IF Lt(One, x[k]) THEN One ELSE x[k]]

(* _run_LBFGS up to the minimizer's first evaluation: _objfn(x0) writes x0 *)
(* back and calls compute_J, _grad(x0) writes x0 back and calls compute_dJ, *)
(* which raises TypeError in _grad_linear.                                   *)
run_LBFGS ==
  /\ pc = "LBFGS"
  /\ LET x0 == clip(get_design_region(simulation.rho))
         s1 == set_design_region(simulation, x0)
         s2 == read_Ez(s1)
         s3 == set_design_region(s2, x0)
         s4 == read_Ez(s3)
     IN /\ simulation' = s4
        /\ readFresh' = (Fresh(s1) /\ Fresh(s3))
        /\ changed' = (changed \/ s4.eps_r # simulation.eps_r)
        /\ run_log' = [run_log EXCEPT !.solved = (s1.fieldsEz = None \/ s3.fieldsEz = None),
                                      !.updates = IF s1.rho # simulation.rho THEN 1 ELSE 0]
        /\ last' = [NoOp EXCEPT !.op = "dJ", !.cached = (s3.fieldsEz # None)]
  /\ pc' = "raised" /\ err' = TypeError
  /\ UNCHANGED <<design_region, method, Nsteps, objfn_list, solverVars>>

NextRun ==
  \/ \E m \in Methods, N \in 0..MaxNsteps : run(m, N)
  \/ run_GD_iteration
  \/ run_GD_end
  \/ run_ADAM_iteration
  \/ run_ADAM_end
  \/ run_LBFGS

SpecRun == InitRun /\ [][NextRun]_vars

(***************************************************************************)
(* Claims about run, checked under SpecRun.                                *)
(***************************************************************************)
SameIgnoringCase(a, b) ==
  /\ Len(a) = Len(b)
  /\ \A i \in DOMAIN a : \E j \in DOMAIN UpperCase :
        {a[i], b[i]} \subseteq {UpperCase[j], LowerCase[j]}
KnownMethod(m) == \E k \in DOMAIN allowed : SameIgnoringCase(m, allowed[k])

(* C3: a run with a method name that is none of LBFGS, GD, ADAM in any     *)
(* letter case ends in a ValueError whose message names the allowed set,   *)
(* and that call solves no field, records no objective value and changes   *)
(* no density cell, permittivity or stored field.                          *)
C3_UnknownMethodRaisesFirst ==
  /\ []((pc # "idle" /\ ~KnownMethod(method)) =>
          /\ pc = "raised" /\ err = ValueError
          /\ err.msg[2] = allowed
          /\ ~run_log.solved /\ run_log.recorded = 0 /\ run_log.updates = 0)
  /\ [][~KnownMethod(method') =>
          /\ objfn_list' = objfn_list
          /\ simulation'.eps_r = simulation.eps_r
          /\ simulation'.fieldsEz = simulation.fieldsEz
          /\ simulation.rho # None => simulation'.rho = simulation.rho]_vars

C3_Witness ==
  /\ pc = "raised" /\ err = ValueError /\ method = <<"S", "G", "D">>
  /\ Len(objfn_list) > 0

(* C9: a gradient-ascent or ADAM run with Nsteps = N ends after exactly N  *)
(* iterations, having appended exactly N objective values.                 *)
C9_ExactlyNIterations ==
  (pc \in {"returned", "raised"} /\ (lower(method) = <<"g", "d">> \/ lower(method) = <<"a", "d", "a", "m">>))
    => /\ pc = "returned"
       /\ run_log.iters = Nsteps
       /\ run_log.recorded = Nsteps

(***************************************************************************)
(* The ADAM moments of _step_adam, carried by the loop of _run_ADAM, in    *)
(* exact rational arithmetic.  A rational is a pair <<numerator,           *)
(* denominator>> in lowest terms with a positive denominator.              *)
(***************************************************************************)
MaxAdamIter == 3
MaxAdamGrad == 2

RECURSIVE GCD(_, _)
GCD(a, b) == IF b = 0 THEN a ELSE GCD(b, a % b)
Abs(n) == IF n < 0 THEN -n ELSE n
Norm(n, d) ==
  LET g == GCD(Abs(n), Abs(d))
      s == IF d < 0 THEN -1 ELSE 1
  IN <<(s * n) \div g, (s * d) \div g>>
R(n) == <<n, 1>>
RAdd(a, b) == Norm(a[1] * b[2] + b[1] * a[2], a[2] * b[2])
RSub(a, b) == Norm(a[1] * b[2] - b[1] * a[2], a[2] * b[2])
RMul(a, b) == Norm(a[1] * b[1], a[2] * b[2])
RDiv(a, b) == Norm(a[1] * b[2], a[2] * b[1])
RECURSIVE RPow(_, _)
RPow(a, n) == IF n = 0 THEN R(1) ELSE RMul(a, RPow(a, n - 1))

Betas == {<<1, 2>>, <<9, 10>>}

(* _step_adam, up to the estimates the step is formed from: the new        *)
(* moments and their bias-corrected values.                                  *)
step_adam_unsquared(gradient, mopt_old, vopt_old, iteration, beta1, beta2) ==
  LET mopt == RAdd(RMul(beta1, mopt_old), RMul(RSub(R(1), beta1), gradient))
      mopt_t == RDiv(mopt, RSub(R(1), RPow(beta1, iteration + 1)))
      vopt == RAdd(RMul(beta2, vopt_old), RMul(RSub(R(1), beta2), gradient))
      vopt_t == RDiv(vopt, RSub(R(1), RPow(beta2, iteration + 1)))
  IN [mopt |-> mopt, vopt |-> vopt, mopt_t |-> mopt_t, vopt_t |-> vopt_t]

step_adam(gradient, mopt_old, vopt_old, iteration, beta1, beta2) ==
  LET mopt == RAdd(RMul(beta1, mopt_old), RMul(RSub(R(1), beta1), gradient))
      mopt_t == RDiv(mopt, RSub(R(1), RPow(beta1, iteration + 1)))
      vopt == RAdd(RMul(beta2, vopt_old), RMul(RSub(R(1), beta2), RMul(gradient, gradient)))
      vopt_t == RDiv(vopt, RSub(R(1), RPow(beta2, iteration + 1)))
  IN [mopt |-> mopt, vopt |-> vopt, mopt_t |-> mopt_t, vopt_t |-> vopt_t]

InitAdam ==
  /\ \E beta1 \in Betas, beta2 \in Betas :
       adam = [beta1 |-> beta1, beta2 |-> beta2, iteration |-> 0, grads |-> << >>,
               mopt |-> None, vopt |-> None, mopt_t |-> None, vopt_t |-> None]
  /\ nl = None /\ nlsim = None
  /\ design_region = [c \in Cells |-> 1]
  /\ simulation = [rho |-> None, eps_r |-> [c \in Cells |-> One], fieldsEz |-> None]
  /\ last = NoOp /\ readFresh = TRUE /\ changed = FALSE
  /\ RunIdle

(* The moment handling of one pass of the loop of _run_ADAM: the moments   *)
(* are zeroed in pass 0, then _step_adam replaces them.                     *)
run_ADAM_moments ==
  /\ adam.iteration < MaxAdamIter
  /\ \E g \in -MaxAdamGrad..MaxAdamGrad :
       LET grad == R(g)
           mopt0 == IF adam.iteration = 0 THEN R(0) ELSE adam.mopt
           vopt0 == IF adam.iteration = 0 THEN R(0) ELSE adam.vopt
           s == step_adam(grad, mopt0, vopt0, adam.iteration, adam.beta1, adam.beta2)
       IN adam' = [adam EXCEPT !.mopt = s.mopt, !.vopt = s.vopt,
                               !.mopt_t = s.mopt_t, !.vopt_t = s.vopt_t,
                               !.iteration = @ + 1, !.grads = Append(@, grad)]
  /\ UNCHANGED <<optVars, runVars, nl, nlsim>>

NextAdam == run_ADAM_moments

SpecAdam == InitAdam /\ [][NextAdam]_vars

(* The moment after the gradients gs, by its closed form                    *)
(* (1 - beta) * sum over i of beta^(t-i) * f(gs[i]), t = Len(gs).           *)
RECURSIVE Moment(_, _, _)
Moment(beta, gs, sq) ==
  IF gs = << >> THEN R(0)
  ELSE LET t == Len(gs)
           g == IF sq THEN RMul(gs[t], gs[t]) ELSE gs[t]
       IN RAdd(RMul(beta, Moment(beta, SubSeq(gs, 1, t - 1), sq)),
               RMul(RSub(R(1), beta), g))

Nbig == 1
MaxIter == 2

NLCells == 1..Nbig
Fields == [NLCells -> {0, 1, 2}]
Thresholds == {<<0, 1>>, <<1, 2>>, <<1, 1>>}
Regions == {[c \in NLCells |-> 1], [c \in NLCells |-> IF c = Nbig THEN 0 ELSE 1]}
eps_lin == [c \in NLCells |-> 1]
ZeroConv == <<0, 1>>

RECURSIVE Norm2(_, _)
Norm2(E, S) == IF S = {} THEN 0
               ELSE LET c == CHOOSE c \in S : TRUE IN E[c] * E[c] + Norm2(E, S \ {c})

(* convergence = np.linalg.norm(Ez - Eprev)/np.linalg.norm(Ez) *)
residual(Ez, Eprev) ==
  <<Norm2([c \in NLCells |-> Ez[c] - Eprev[c]], NLCells), Norm2(Ez, NLCells)>>

(* convergence < conv_threshold and convergence > conv_threshold in floats  *)
conv_lt(r, thr) == r[2] > 0 /\ r[1] * thr[2] * thr[2] < thr[1] * thr[1] * r[2]
conv_gt(r, thr) ==
  \/ r[2] > 0 /\ r[1] * thr[2] * thr[2] > thr[1] * thr[1] * r[2]
  \/ r[2] = 0 /\ r[1] > 0
conv_le(r, thr) == r[2] > 0 /\ r[1] * thr[2] * thr[2] <= thr[1] * thr[1] * r[2]

(* nonlinear_fn: a Kerr term, the squared field magnitude.                  *)
nonlinear_fn(E) == [c \in NLCells |-> E[c] * E[c]]

(* eps_nl = eps_r + nonlinear_fn(E)*nl_region *)
eps_nl(E, nl_region) == [c \in NLCells |-> eps_lin[c] + nonlinear_fn(E)[c] * nl_region[c]]

(* Simulation.reset_eps: replaces the permittivity, solves nothing.         *)
reset_eps(sim, eps_new) == [sim EXCEPT !.eps_r = eps_new, !.calls = Append(@, "reset")]

(* Simulation.solve_fields(b): a solve under the permittivity last set.     *)
solve_fields_b(sim) == [sim EXCEPT !.fieldsEz = sim.eps_r, !.calls = Append(@, "solve")]

InitNL ==
  /\ nl = [pc |-> "idle"]
  /\ nlsim = [eps_r |-> eps_lin, fieldsEz |-> None, calls |-> << >>]
  /\ adam = None
  /\ design_region = [c \in Cells |-> 1]
  /\ simulation = [rho |-> None, eps_r |-> [c \in Cells |-> One], fieldsEz |-> None]
  /\ last = NoOp /\ readFresh = TRUE /\ changed = FALSE
  /\ RunIdle

(* The entry of born_solve or newton_solve: the starting field and the     *)
(* zeroed residual trace.                                                    *)
solve_entry(kind, nl_region, Estart, conv_threshold, max_num_iter) ==
  /\ nl.pc = "idle"
  /\ \E E0 \in Fields :
       /\ Estart # None => E0 = Estart
       /\ nl' = [pc |-> IF max_num_iter = 0 THEN "after" ELSE "loop",
                 kind |-> kind, nl_region |-> nl_region, Estart |-> Estart,
                 conv_threshold |-> conv_threshold, max_num_iter |-> max_num_iter,
                 Ez |-> E0, Eprev |-> None, istep |-> 0,
                 conv_array |-> [k \in 1..max_num_iter |-> ZeroConv],
                 convergence |-> None, broke |-> FALSE, printed |-> FALSE,
                 Anl |-> None, Enewton |-> None]
  /\ nlsim' = IF Estart = None THEN solve_fields_b(nlsim) ELSE nlsim
  /\ UNCHANGED <<optVars, runVars, adam>>

(* What both loops do with the new field Enew of pass istep: the residual, *)
(* its trace entry, and the break below the threshold.                      *)
loop_tail_le(Enew, Anl) ==
  LET convergence == residual(Enew, nl.Ez)
      brk == conv_le(convergence, nl.conv_threshold)
  IN nl' = [nl EXCEPT !.Eprev = nl.Ez, !.Ez = Enew, !.Anl = Anl,
                      !.convergence = convergence,
                      !.conv_array[nl.istep + 1] = convergence,
                      !.istep = @ + 1,
                      !.broke = brk,
                      !.pc = IF brk \/ nl.istep + 1 = nl.max_num_iter THEN "after" ELSE "loop"]

loop_tail(Enew, Anl) ==
  LET convergence == residual(Enew, nl.Ez)
      brk == conv_lt(convergence, nl.conv_threshold)
  IN nl' = [nl EXCEPT !.Eprev = nl.Ez, !.Ez = Enew, !.Anl = Anl,
                      !.convergence = convergence,
                      !.conv_array[nl.istep + 1] = convergence,
                      !.istep = @ + 1,
                      !.broke = brk,
                      !.pc = IF brk \/ nl.istep + 1 = nl.max_num_iter THEN "after" ELSE "loop"]

(* One pass of the loop of born_solve. *)
born_iteration ==
  /\ nl.pc = "loop" /\ nl.kind = "born"
  /\ nlsim' = solve_fields_b(reset_eps(nlsim, eps_nl(nl.Ez, nl.nl_region)))
  /\ \E Enew \in Fields : loop_tail(Enew, None)
  /\ UNCHANGED <<optVars, runVars, adam>>

(* One pass of the loop of newton_solve: reset_eps, then the matrix         *)
(* simulation.A (kept as the permittivity it is assembled from), then the   *)
(* Newton step, whose increment comes from solver_direct.                   *)
newton_iteration ==
  /\ nl.pc = "loop" /\ nl.kind = "newton"
  /\ nlsim' = reset_eps(nlsim, eps_nl(nl.Ez, nl.nl_region))
  /\ \E Enew \in Fields : loop_tail(Enew, nlsim'.eps_r)
  /\ UNCHANGED <<optVars, runVars, adam>>

(* After the loop: the diagnostic and the return.  convergence is unbound  *)
(* when the loop made no pass, and reading it raises UnboundLocalError.     *)
after_loop(Ez, Enewton) ==
  IF nl.convergence = None
  THEN nl' = [nl EXCEPT !.pc = "raised", !.Ez = Ez, !.Enewton = Enewton]
  ELSE nl' = [nl EXCEPT !.pc = "returned", !.Ez = Ez, !.Enewton = Enewton,
                        !.printed = conv_gt(nl.convergence, nl.conv_threshold)]

born_return ==
  /\ nl.pc = "after" /\ nl.kind = "born"
  /\ after_loop(nl.Ez, None)
  /\ UNCHANGED <<optVars, runVars, adam, nlsim>>

newton_return_no_reset ==
  /\ nl.pc = "after" /\ nl.kind = "newton"
  /\ nlsim' = solve_fields_b(nlsim)
  /\ \E Efinal \in Fields : after_loop(Efinal, nl.Ez)
  /\ UNCHANGED <<optVars, runVars, adam>>

(* newton_solve after its loop: one more reset_eps from the last iterate   *)
(* and one solve_fields.                                                     *)
newton_return ==
  /\ nl.pc = "after" /\ nl.kind = "newton"
  /\ nlsim' = solve_fields_b(reset_eps(nlsim, eps_nl(nl.Ez, nl.nl_region)))
  /\ \E Efinal \in Fields : after_loop(Efinal, nl.Ez)
  /\ UNCHANGED <<optVars, runVars, adam>>

NextNL ==
  \/ \E kind \in {"born", "newton"}, nl_region \in Regions, Estart \in Fields \cup {None},
        conv_threshold \in Thresholds, max_num_iter \in 0..MaxIter :
       solve_entry(kind, nl_region, Estart, conv_threshold, max_num_iter)
  \/ born_iteration
  \/ newton_iteration
  \/ born_return
  \/ newton_return

SpecNL == InitNL /\ [][NextNL]_vars

(***************************************************************************)
(* Claims about the nonlinear solvers, checked under SpecNL.               *)
(***************************************************************************)
Called == nl.pc # "idle"
Ended == nl.pc \in {"returned", "raised"}
LoopOver == nl.pc \in {"after", "returned", "raised"}

(* C5: the loop makes at most max_num_iter passes and stops right after    *)
(* the first pass whose residual is below conv_threshold; after such a     *)
(* stop the last residual written to the trace is below conv_threshold;    *)
(* the trace entries of passes not made are zero.                           *)
C5_LoopBound ==
  Called =>
    /\ nl.istep <= nl.max_num_iter
    /\ Len(nl.conv_array) = nl.max_num_iter
    /\ \A k \in 1..nl.max_num_iter : k > nl.istep => nl.conv_array[k] = ZeroConv
    /\ \A k \in 1..nl.istep :
         conv_lt(nl.conv_array[k], nl.conv_threshold) => (k = nl.istep /\ LoopOver)
    /\ nl.broke => /\ LoopOver /\ nl.istep >= 1
                   /\ nl.conv_array[nl.istep] = nl.convergence
                   /\ conv_lt(nl.conv_array[nl.istep], nl.conv_threshold)
    /\ (LoopOver /\ ~nl.broke) => nl.istep = nl.max_num_iter

C5_Witness ==
  /\ Ended /\ nl.broke /\ nl.istep = 1 /\ nl.max_num_iter = 2
  /\ nl.conv_threshold = <<1, 1>>
  /\ nl.conv_array[1] = <<1, 4>> /\ nl.conv_array[2] = ZeroConv

(* C6: a run whose loop ended with no residual below conv_threshold        *)
(* returns normally, and the diagnostic is printed in exactly those runs.  *)
C6_ReportsNonConvergence ==
  Ended => /\ nl.pc = "returned"
           /\ nl.printed = ~nl.broke

(* C10: every pass of newton_solve calls reset_eps with the permittivity   *)
(* of the current guess before it reads the matrix and calls no            *)
(* solve_fields; after the loop come exactly one reset_eps and one         *)
(* solve_fields, under the permittivity of the last iterate; the call      *)
(* makes one field solve when Estart is given and two when it is not.      *)
Resets(n) == [k \in 1..n |-> "reset"]
C10_NewtonCalls ==
  (Called /\ nl.kind = "newton") =>
    LET first == IF nl.Estart = None THEN <<"solve">> ELSE << >>
    IN /\ nl.istep >= 1 => nl.Anl = eps_nl(nl.Eprev, nl.nl_region)
       /\ ~Ended => nlsim.calls = first \o Resets(nl.istep)
       /\ Ended =>
            /\ nlsim.calls = first \o Resets(nl.istep) \o <<"reset", "solve">>
            /\ nlsim.fieldsEz = eps_nl(nl.Enewton, nl.nl_region)
            /\ Cardinality({k \in DOMAIN nlsim.calls : nlsim.calls[k] = "solve"})
                 = (IF nl.Estart = None THEN 2 ELSE 1)

C10_Witness ==
  /\ Ended /\ nl.kind = "newton" /\ nl.Estart = None /\ nl.istep = 2
  /\ nlsim.calls = <<"solve", "reset", "reset", "reset", "solve">>
  /\ nl.Enewton # nl.Eprev

====
